---- MODULE Spec2Model ----
(***************************************************************************)
(* The example-erc721 token registry and the example-pallet transfer       *)
(* orchestrator of chainbridge-substrate, as one state machine.            *)
(*                                                                         *)
(* Every dispatchable is an operator from the storage before the call to   *)
(* the storage after it and the call's result.  Storage writes are applied *)
(* in the order the code makes them and are NOT rolled back when a later   *)
(* step of the same call returns Err: no dispatchable in either pallet     *)
(* opens a storage transaction.                                            *)
(***************************************************************************)
EXTENDS Integers, Sequences, FiniteSets, TLC

VARIABLES Tokens, TokenOwner, TokenCount, Balances, ChainWhitelist,
          events, bridgeCalls, call, result, burnedFrom, counting, unsent

\* Tokens, TokenOwner, TokenCount: the registry's three storage items.
\* Balances: the currency's free balances.  ChainWhitelist: the bridge's
\* whitelist.  events: the events deposited by the latest call.
\* bridgeCalls: what the latest call handed to the bridge.  call, result: the
\* latest call's name and origin, and what it returned.  burnedFrom: per id,
\* the owner burn_token read at the latest burn of the id.  counting, unsent:
\* a history kept only in the behaviours that start with counting set: per
\* id, the number of Minted events deposited for it so far minus the number
\* of transfer_nonfungible messages handed to the bridge for it so far.
vars == <<Tokens, TokenOwner, TokenCount, Balances, ChainWhitelist,
          events, bridgeCalls, call, result, burnedFrom, counting, unsent>>

(***************************************************************************)
(* Bounds and input sets                                                   *)
(***************************************************************************)

\* TokenCount never decreases in the code, so the model takes no call that
\* would carry it past this value.
MaxCount == 3

Users == {"alice", "bob"}
bridge_id == "bridge"
AccountIds == Users \cup {bridge_id}

Root == [kind |-> "Root"]
Signed(who) == [kind |-> "Signed", who |-> who]
Origins == {Root} \cup {Signed(a) : a \in AccountIds}

TokenIds == {7, 258}
Metadatas == {<<1, 2, 3>>, <<>>}
Recipients == {<<5, 6>>}
ChainIds == {1, 2}
\* The chains the bridge's administration whitelists in this model.
Whitelistable == {1}
Amounts == {1}

NoAccount == "none"

(***************************************************************************)
(* Storage maps                                                            *)
(***************************************************************************)
Insert(m, k, v) == [x \in DOMAIN m \cup {k} |-> IF x = k THEN v ELSE m[x]]
Remove(m, k) == [x \in DOMAIN m \ {k} |-> m[x]]
EmptyMap == [x \in {} |-> 0]

\* The storage a dispatchable reads and writes, as one value.
World == [Tokens |-> Tokens, TokenOwner |-> TokenOwner, TokenCount |-> TokenCount,
          Balances |-> Balances, ChainWhitelist |-> ChainWhitelist,
          events |-> <<>>, bridgeCalls |-> <<>>]

Ret(w, res) == [w |-> w, res |-> res]

\* StorageMap getters: Some(v) is v, None is NoAccount / absence from DOMAIN.
contains_key(m, id) == id \in DOMAIN m
owner_of(w, id) == IF id \in DOMAIN w.TokenOwner THEN w.TokenOwner[id] ELSE NoAccount

\* U256::saturating_add.  The bound 2^256 - 1 is outside TLC's integers and
\* cannot be approached by a counter that grows by one per call.
saturating_add(a, b) == a + b

deposit_event(w, e) == [w EXCEPT !.events = Append(@, e)]

(***************************************************************************)
(* Origin checks                                                           *)
(***************************************************************************)
ensure_root(origin) == origin.kind = "Root"
ensure_signed(origin) == origin.kind = "Signed"
\* The bridge's origin check yields the bridge's own account or fails.
BridgeOrigin_ensure_origin(origin) == origin.kind = "Signed" /\ origin.who = bridge_id

(***************************************************************************)
(* example-erc721: the token registry                                      *)
(***************************************************************************)
\* A token record whose id field is left at its default.
Erc721Token_defaultId(id, metadata) == [id |-> 0, metadata |-> metadata]

Erc721Token(id, metadata) == [id |-> id, metadata |-> metadata]

Minted(owner, id) == [event |-> "Minted", owner |-> owner, id |-> id]
Transferred(from, to, id) == [event |-> "Transferred", from |-> from, to |-> to, id |-> id]
Burned(id) == [event |-> "Burned", id |-> id]

\* mint_token without the counter update.
mint_token_noCount(w, owner, id, metadata) ==
    IF contains_key(w.Tokens, id) THEN Ret(w, "TokenAlreadyExists")
    ELSE LET new_token == Erc721Token(id, metadata)
             w1 == [w EXCEPT !.Tokens = Insert(@, id, new_token)]
             w2 == [w1 EXCEPT !.TokenOwner = Insert(@, id, owner)]
         IN  Ret(deposit_event(w2, Minted(owner, id)), "Ok")

\* mint_token without the existence check: a second mint overwrites.
mint_token_overwrites(w, owner, id, metadata) ==
    LET new_token == Erc721Token(id, metadata)
        w1 == [w EXCEPT !.Tokens = Insert(@, id, new_token)]
        w2 == [w1 EXCEPT !.TokenOwner = Insert(@, id, owner)]
        w3 == [w2 EXCEPT !.TokenCount = saturating_add(@, 1)]
    IN  Ret(deposit_event(w3, Minted(owner, id)), "Ok")

mint_token(w, owner, id, metadata) ==
    IF contains_key(w.Tokens, id) THEN Ret(w, "TokenAlreadyExists")
    ELSE LET new_token == Erc721Token(id, metadata)
             w1 == [w EXCEPT !.Tokens = Insert(@, id, new_token)]
             w2 == [w1 EXCEPT !.TokenOwner = Insert(@, id, owner)]
             new_total == saturating_add(w2.TokenCount, 1)
             w3 == [w2 EXCEPT !.TokenCount = new_total]
         IN  Ret(deposit_event(w3, Minted(owner, id)), "Ok")

\* transfer_from without the owner check.
transfer_from_anySender(w, from, to, id) ==
    LET owner == owner_of(w, id) IN
    IF owner = NoAccount THEN Ret(w, "TokenIdDoesNotExist")
    ELSE LET w1 == [w EXCEPT !.TokenOwner = Insert(@, id, to)]
         IN  Ret(deposit_event(w1, Transferred(from, to, id)), "Ok")

\* transfer_from that also bumps the counter, as mint and burn do.
transfer_from_counts(w, from, to, id) ==
    LET owner == owner_of(w, id) IN
    IF owner = NoAccount THEN Ret(w, "TokenIdDoesNotExist")
    ELSE IF owner # from THEN Ret(w, "NotOwner")
    ELSE LET w1 == [w EXCEPT !.TokenOwner = Insert(@, id, to)]
             w2 == [w1 EXCEPT !.TokenCount = saturating_add(@, 1)]
         IN  Ret(deposit_event(w2, Transferred(from, to, id)), "Ok")

transfer_from(w, from, to, id) ==
    LET owner == owner_of(w, id) IN
    IF owner = NoAccount THEN Ret(w, "TokenIdDoesNotExist")
    ELSE IF owner # from THEN Ret(w, "NotOwner")
    ELSE LET w1 == [w EXCEPT !.TokenOwner = Insert(@, id, to)]
         IN  Ret(deposit_event(w1, Transferred(from, to, id)), "Ok")

\* burn_token that leaves the Ownership Map entry behind.
burn_token_keepsOwner(w, from, id) ==
    LET owner == owner_of(w, id) IN
    IF owner = NoAccount THEN Ret(w, "TokenIdDoesNotExist")
    ELSE IF owner # from THEN Ret(w, "NotOwner")
    ELSE LET w1 == [w EXCEPT !.Tokens = Remove(@, id)]
             w2 == [w1 EXCEPT !.TokenCount = saturating_add(@, 1)]
         IN  Ret(deposit_event(w2, Burned(id)), "Ok")

\* burn_token that leaves the token record behind as a tombstone.
burn_token_keepsToken(w, from, id) ==
    LET owner == owner_of(w, id) IN
    IF owner = NoAccount THEN Ret(w, "TokenIdDoesNotExist")
    ELSE IF owner # from THEN Ret(w, "NotOwner")
    ELSE LET w1 == [w EXCEPT !.TokenOwner = Remove(@, id)]
             w2 == [w1 EXCEPT !.TokenCount = saturating_add(@, 1)]
         IN  Ret(deposit_event(w2, Burned(id)), "Ok")

burn_token(w, from, id) ==
    LET owner == owner_of(w, id) IN
    IF owner = NoAccount THEN Ret(w, "TokenIdDoesNotExist")
    ELSE IF owner # from THEN Ret(w, "NotOwner")
    ELSE LET w1 == [w EXCEPT !.Tokens = Remove(@, id)]
             w2 == [w1 EXCEPT !.TokenOwner = Remove(@, id)]
             new_total == saturating_add(w2.TokenCount, 1)
             w3 == [w2 EXCEPT !.TokenCount = new_total]
         IN  Ret(deposit_event(w3, Burned(id)), "Ok")

mint(w, origin, owner, id, metadata) ==
    IF ~ensure_root(origin) THEN Ret(w, "BadOrigin")
    ELSE mint_token(w, owner, id, metadata)

\* transfer that moves the token in the name of its recorded owner.
erc721_transfer_asOwner(w, origin, to, id) ==
    IF ~ensure_signed(origin) THEN Ret(w, "BadOrigin")
    ELSE transfer_from(w, owner_of(w, id), to, id)

erc721_transfer(w, origin, to, id) ==
    IF ~ensure_signed(origin) THEN Ret(w, "BadOrigin")
    ELSE transfer_from(w, origin.who, to, id)

\* burn open to any signed account.
burn_signed(w, origin, id) ==
    IF ~ensure_signed(origin) THEN Ret(w, "BadOrigin")
    ELSE LET owner == owner_of(w, id) IN
         IF owner = NoAccount THEN Ret(w, "TokenIdDoesNotExist")
         ELSE burn_token(w, owner, id)

burn(w, origin, id) ==
    IF ~ensure_root(origin) THEN Ret(w, "BadOrigin")
    ELSE LET owner == owner_of(w, id) IN
         IF owner = NoAccount THEN Ret(w, "TokenIdDoesNotExist")
         ELSE burn_token(w, owner, id)

(***************************************************************************)
(* Collaborators: the bridge pallet and the currency                       *)
(***************************************************************************)
chain_whitelisted(w, dest_id) == dest_id \in w.ChainWhitelist

\* The bridge's submission primitive: the message handed over is recorded,
\* and the bridge accepts it or fails.  It refuses a destination that is not
\* whitelisted; bridgeOk is its outcome otherwise.
submit_message(w, msg, bridgeOk) ==
    LET w1 == [w EXCEPT !.bridgeCalls = Append(@, msg)] IN
    IF ~chain_whitelisted(w, msg.dest_id) THEN Ret(w1, "ChainNotWhitelisted")
    ELSE IF ~bridgeOk THEN Ret(w1, "SubmitFailed")
    ELSE Ret(w1, "Ok")

transfer_generic(w, dest_id, resource_id, metadata, bridgeOk) ==
    submit_message(w, [fn |-> "transfer_generic", dest_id |-> dest_id,
                       resource_id |-> resource_id, metadata |-> metadata], bridgeOk)

transfer_fungible(w, dest_id, resource_id, to, amount, bridgeOk) ==
    submit_message(w, [fn |-> "transfer_fungible", dest_id |-> dest_id,
                       resource_id |-> resource_id, to |-> to, amount |-> amount], bridgeOk)

transfer_nonfungible(w, dest_id, resource_id, token_id, to, metadata, bridgeOk) ==
    submit_message(w, [fn |-> "transfer_nonfungible", dest_id |-> dest_id,
                       resource_id |-> resource_id, token_id |-> token_id,
                       to |-> to, metadata |-> metadata], bridgeOk)

\* Currency::transfer with AllowDeath: all or nothing.
Currency_transfer(w, source, dest, amount) ==
    IF w.Balances[source] < amount THEN Ret(w, "InsufficientBalance")
    ELSE LET b1 == [w.Balances EXCEPT ![source] = @ - amount]
             b2 == [b1 EXCEPT ![dest] = @ + amount]
         IN  Ret([w EXCEPT !.Balances = b2], "Ok")

(***************************************************************************)
(* example-pallet: the transfer orchestrator                               *)
(***************************************************************************)
HashId == "HashId"
NativeTokenId == "NativeTokenId"
Erc721Id == "Erc721Id"

\* U256::to_big_endian into a buffer of len bytes, most significant first.
RECURSIVE BigEndian(_, _)
BigEndian(n, len) ==
    IF len = 0 THEN <<>> ELSE Append(BigEndian(n \div 256, len - 1), n % 256)

TidLen == 32
\* The same bytes, least significant first.
RECURSIVE LittleEndian(_, _)
LittleEndian(n, len) ==
    IF len = 0 THEN <<>> ELSE <<n % 256>> \o LittleEndian(n \div 256, len - 1)

to_little_endian(token_id) == LittleEndian(token_id, TidLen)

to_big_endian(token_id) == BigEndian(token_id, TidLen)

Hashes == {to_big_endian(513)}

\* The example pallet's only event.
RemarkEvent(hash) == [event |-> "Remark", hash |-> hash]

\* transfer_hash with the whitelist check of its two siblings.
transfer_hash_checksWhitelist(w, origin, hash, dest_id, bridgeOk) ==
    IF ~ensure_signed(origin) THEN Ret(w, "BadOrigin")
    ELSE IF ~chain_whitelisted(w, dest_id) THEN Ret(w, "InvalidTransfer")
    ELSE transfer_generic(w, dest_id, HashId, hash, bridgeOk)

transfer_hash(w, origin, hash, dest_id, bridgeOk) ==
    IF ~ensure_signed(origin) THEN Ret(w, "BadOrigin")
    ELSE LET resource_id == HashId
             metadata == hash
         IN  transfer_generic(w, dest_id, resource_id, metadata, bridgeOk)

\* transfer_native that drops the result of the balance move.
transfer_native_ignoresMove(w, origin, amount, recipient, dest_id, bridgeOk) ==
    IF ~ensure_signed(origin) THEN Ret(w, "BadOrigin")
    ELSE IF ~chain_whitelisted(w, dest_id) THEN Ret(w, "InvalidTransfer")
    ELSE LET source == origin.who
             moved == Currency_transfer(w, source, bridge_id, amount)
         IN  transfer_fungible(moved.w, dest_id, NativeTokenId, recipient,
                               amount, bridgeOk)

transfer_native(w, origin, amount, recipient, dest_id, bridgeOk) ==
    IF ~ensure_signed(origin) THEN Ret(w, "BadOrigin")
    ELSE IF ~chain_whitelisted(w, dest_id) THEN Ret(w, "InvalidTransfer")
    ELSE LET source == origin.who
             moved == Currency_transfer(w, source, bridge_id, amount)
         IN  IF moved.res # "Ok" THEN moved
             ELSE transfer_fungible(moved.w, dest_id, NativeTokenId, recipient,
                                    amount, bridgeOk)

\* transfer_erc721 that leaves the whitelist check to the bridge.
transfer_erc721_noWhitelist(w, origin, recipient, token_id, dest_id, bridgeOk) ==
    IF ~ensure_signed(origin) THEN Ret(w, "BadOrigin")
    ELSE IF contains_key(w.Tokens, token_id)
         THEN LET source == origin.who
                  token == w.Tokens[token_id]
                  burned == burn_token(w, source, token_id)
              IN  IF burned.res # "Ok" THEN burned
                  ELSE transfer_nonfungible(burned.w, dest_id, Erc721Id,
                                            to_big_endian(token_id), recipient,
                                            token.metadata, bridgeOk)
         ELSE Ret(w, "InvalidTransfer")

\* transfer_erc721 that burns in the name of the recorded owner, as the
\* root's burn does.
transfer_erc721_burnsAsOwner(w, origin, recipient, token_id, dest_id, bridgeOk) ==
    IF ~ensure_signed(origin) THEN Ret(w, "BadOrigin")
    ELSE IF ~chain_whitelisted(w, dest_id) THEN Ret(w, "InvalidTransfer")
    ELSE IF contains_key(w.Tokens, token_id)
         THEN LET token == w.Tokens[token_id]
                  burned == burn_token(w, owner_of(w, token_id), token_id)
              IN  IF burned.res # "Ok" THEN burned
                  ELSE transfer_nonfungible(burned.w, dest_id, Erc721Id,
                                            to_big_endian(token_id), recipient,
                                            token.metadata, bridgeOk)
         ELSE Ret(w, "InvalidTransfer")

\* transfer_erc721 that sends the message and leaves the token in place.
transfer_erc721_noBurn(w, origin, recipient, token_id, dest_id, bridgeOk) ==
    IF ~ensure_signed(origin) THEN Ret(w, "BadOrigin")
    ELSE IF ~chain_whitelisted(w, dest_id) THEN Ret(w, "InvalidTransfer")
    ELSE IF contains_key(w.Tokens, token_id)
         THEN LET token == w.Tokens[token_id]
              IN  transfer_nonfungible(w, dest_id, Erc721Id,
                                       to_big_endian(token_id), recipient,
                                       token.metadata, bridgeOk)
         ELSE Ret(w, "InvalidTransfer")

transfer_erc721(w, origin, recipient, token_id, dest_id, bridgeOk) ==
    IF ~ensure_signed(origin) THEN Ret(w, "BadOrigin")
    ELSE IF ~chain_whitelisted(w, dest_id) THEN Ret(w, "InvalidTransfer")
    ELSE IF contains_key(w.Tokens, token_id)
         THEN LET source == origin.who
                  token == w.Tokens[token_id]
                  burned == burn_token(w, source, token_id)
              IN  IF burned.res # "Ok" THEN burned
                  ELSE transfer_nonfungible(burned.w, dest_id, Erc721Id,
                                            to_big_endian(token_id), recipient,
                                            token.metadata, bridgeOk)
         ELSE Ret(w, "InvalidTransfer")

example_transfer(w, origin, to, amount) ==
    IF ~BridgeOrigin_ensure_origin(origin) THEN Ret(w, "BadOrigin")
    ELSE LET source == origin.who
         IN  Currency_transfer(w, source, to, amount)

remark(w, origin, hash) ==
    IF ~BridgeOrigin_ensure_origin(origin) THEN Ret(w, "BadOrigin")
    ELSE Ret(w, "Ok")

\* mint_erc721 that mints to the account the origin check yields.
mint_erc721_toBridge(w, origin, recipient, id, metadata) ==
    IF ~BridgeOrigin_ensure_origin(origin) THEN Ret(w, "BadOrigin")
    ELSE mint_token(w, origin.who, id, metadata)

\* mint_erc721 that skips the bridge-origin check.
mint_erc721_anyOrigin(w, origin, recipient, id, metadata) ==
    mint_token(w, recipient, id, metadata)

mint_erc721(w, origin, recipient, id, metadata) ==
    IF ~BridgeOrigin_ensure_origin(origin) THEN Ret(w, "BadOrigin")
    ELSE mint_token(w, recipient, id, metadata)

(***************************************************************************)
(* The state machine                                                       *)
(***************************************************************************)
\* What the host records of a dispatched call: its name and its origin.
Call(op, origin) == [op |-> op, origin |-> origin]

\* The storage at genesis.
Genesis ==
    /\ Tokens = EmptyMap
    /\ TokenOwner = EmptyMap
    /\ TokenCount = 0
    /\ Balances = [a \in AccountIds |-> IF a = "alice" THEN 1 ELSE 0]
    /\ ChainWhitelist = {}
    /\ events = <<>>
    /\ bridgeCalls = <<>>
    /\ call = Call("genesis", Root)
    /\ result = "Ok"
    /\ burnedFrom = [id \in TokenIds |-> NoAccount]
    /\ unsent = [id \in TokenIds |-> 0]

Init == Genesis /\ counting = FALSE

\* The same start, with the history of mints and token messages kept.
InitCounting == Genesis /\ counting = TRUE

\* The bytes transfer_erc721 puts in a message for each id.
TokenIdBytes == [id \in TokenIds |-> to_big_endian(id)]

\* How many Minted events for id are in evs, and how many token messages for
\* id are in msgs.
MintedIn(evs, id) ==
    Cardinality({i \in 1..Len(evs) : evs[i].event = "Minted" /\ evs[i].id = id})
SentIn(msgs, id) ==
    Cardinality({i \in 1..Len(msgs) : /\ msgs[i].fn = "transfer_nonfungible"
                                      /\ msgs[i].token_id = TokenIdBytes[id]})

\* The call c (its name and origin) ran on the current storage and returned
\* out.  burnedFrom remembers, per id, the owner at the latest burn; where
\* the history is kept, unsent gains the call's Minted events and loses its
\* token messages.
Commit(c, out) ==
    /\ out.w.TokenCount <= MaxCount
    /\ Tokens' = out.w.Tokens
    /\ TokenOwner' = out.w.TokenOwner
    /\ TokenCount' = out.w.TokenCount
    /\ Balances' = out.w.Balances
    /\ ChainWhitelist' = out.w.ChainWhitelist
    /\ events' = out.w.events
    /\ bridgeCalls' = out.w.bridgeCalls
    /\ call' = c
    /\ result' = out.res
    /\ burnedFrom' = [id \in TokenIds |->
                        IF \E i \in 1..Len(out.w.events) : out.w.events[i] = Burned(id)
                        THEN owner_of(World, id) ELSE burnedFrom[id]]
    /\ counting' = counting
    /\ unsent' = IF counting
                 THEN [id \in TokenIds |-> unsent[id] + MintedIn(out.w.events, id)
                                                       - SentIn(out.w.bridgeCalls, id)]
                 ELSE unsent

MintStep(origin, owner, id, metadata) ==
    Commit(Call("mint", origin), mint(World, origin, owner, id, metadata))

TransferStep(origin, to, id) ==
    Commit(Call("transfer", origin), erc721_transfer(World, origin, to, id))

BurnStep(origin, id) ==
    Commit(Call("burn", origin), burn(World, origin, id))

TransferHashStep(origin, hash, dest_id, bridgeOk) ==
    Commit(Call("transfer_hash", origin),
           transfer_hash(World, origin, hash, dest_id, bridgeOk))

TransferNativeStep(origin, amount, recipient, dest_id, bridgeOk) ==
    Commit(Call("transfer_native", origin),
           transfer_native(World, origin, amount, recipient, dest_id, bridgeOk))

TransferErc721Step(origin, recipient, token_id, dest_id, bridgeOk) ==
    Commit(Call("transfer_erc721", origin),
           transfer_erc721(World, origin, recipient, token_id, dest_id, bridgeOk))

ExampleTransferStep(origin, to, amount) ==
    Commit(Call("example_transfer", origin), example_transfer(World, origin, to, amount))

RemarkStep(origin, hash) ==
    Commit(Call("remark", origin), remark(World, origin, hash))

MintErc721Step(origin, recipient, id, metadata) ==
    Commit(Call("mint_erc721", origin),
           mint_erc721(World, origin, recipient, id, metadata))

Mint ==
    \E origin \in Origins, owner \in Users, id \in TokenIds, metadata \in Metadatas :
        MintStep(origin, owner, id, metadata)

Transfer ==
    \E origin \in Origins, to \in Users, id \in TokenIds :
        TransferStep(origin, to, id)

Burn ==
    \E origin \in Origins, id \in TokenIds :
        BurnStep(origin, id)

TransferHash ==
    \E origin \in Origins, hash \in Hashes, dest_id \in ChainIds, bridgeOk \in BOOLEAN :
        TransferHashStep(origin, hash, dest_id, bridgeOk)

TransferNative ==
    \E origin \in Origins, amount \in Amounts, recipient \in Recipients,
       dest_id \in ChainIds, bridgeOk \in BOOLEAN :
        TransferNativeStep(origin, amount, recipient, dest_id, bridgeOk)

TransferErc721 ==
    \E origin \in Origins, recipient \in Recipients, token_id \in TokenIds,
       dest_id \in ChainIds, bridgeOk \in BOOLEAN :
        TransferErc721Step(origin, recipient, token_id, dest_id, bridgeOk)

ExampleTransfer ==
    \E origin \in Origins, to \in Users, amount \in Amounts :
        ExampleTransferStep(origin, to, amount)

Remark ==
    \E origin \in Origins, hash \in Hashes :
        RemarkStep(origin, hash)

MintErc721 ==
    \E origin \in Origins, recipient \in Users, id \in TokenIds, metadata \in Metadatas :
        MintErc721Step(origin, recipient, id, metadata)

\* The bridge's own whitelist maintenance, a root call of the bridge pallet.
WhitelistChain ==
    \E id \in Whitelistable :
        /\ id \notin ChainWhitelist
        /\ Commit(Call("whitelist_chain", Root),
                  Ret([World EXCEPT !.ChainWhitelist = @ \cup {id}], "Ok"))

Next ==
    \/ Mint
    \/ Transfer
    \/ Burn
    \/ TransferHash
    \/ TransferNative
    \/ TransferErc721
    \/ ExampleTransfer
    \/ Remark
    \/ MintErc721
    \/ WhitelistChain

Spec == Init /\ [][Next]_vars

\* The same program, observed with the history of mints and token messages.
SpecCounting == InitCounting /\ [][Next]_vars

(***************************************************************************)
(* Vocabulary of the properties                                            *)
(***************************************************************************)
Live(id) == contains_key(Tokens, id)
RegistryUnchanged == UNCHANGED <<Tokens, TokenOwner, TokenCount>>
Emitted(evs, kind) == \E i \in 1..Len(evs) : evs[i].event = kind

\* The last call reached mint_token: the root's mint, or the bridge origin's
\* mint_erc721.
IsMintToken(c) ==
    \/ c.op = "mint" /\ ensure_root(c.origin)
    \/ c.op = "mint_erc721" /\ BridgeOrigin_ensure_origin(c.origin)

(***************************************************************************)
(* C1: the Supply Counter equals the number of tokens in the Token Store   *)
(* in every reachable state, in particular after a successful burn.        *)
(***************************************************************************)
C1_CounterIsCardinality == TokenCount = Cardinality(DOMAIN Tokens)

(***************************************************************************)
(* C2: in every reachable state the Ownership Map has an entry for an id   *)
(* exactly when the Token Store has a record for it, and the entry names   *)
(* one owner account.                                                      *)
(***************************************************************************)
C2_OwnerIffToken ==
    \A id \in TokenIds :
        /\ contains_key(TokenOwner, id) <=> contains_key(Tokens, id)
        /\ contains_key(TokenOwner, id) => TokenOwner[id] \in AccountIds

\* One token live and just transferred, the other burned.
C2_Witness ==
    \E id, other \in TokenIds :
        /\ Live(id) /\ ~Live(other)
        /\ burnedFrom[other] # NoAccount
        /\ call.op = "transfer" /\ result = "Ok"

(***************************************************************************)
(* C3: a mint of an id that is not live succeeds; afterwards the Token     *)
(* Store holds the token with that id and metadata, the owner is the given *)
(* owner, Minted(owner, id) was emitted and the Supply Counter is one more *)
(* than before.  (mint_token is reached by the root's mint and by the      *)
(* bridge origin's mint_erc721.)                                           *)
(***************************************************************************)
MintCreates(owner, id, metadata) ==
    /\ result' = "Ok"
    /\ contains_key(Tokens', id)
    /\ Tokens'[id] = Erc721Token(id, metadata)
    /\ contains_key(TokenOwner', id)
    /\ TokenOwner'[id] = owner
    /\ events' = <<Minted(owner, id)>>
    /\ TokenCount' = TokenCount + 1

C3_MintCreates ==
    [][ /\ (call'.op = "mint" /\ ensure_root(call'.origin)) =>
            \A owner \in Users, id \in TokenIds, metadata \in Metadatas :
                (~Live(id) /\ MintStep(call'.origin, owner, id, metadata))
                    => MintCreates(owner, id, metadata)
        /\ (call'.op = "mint_erc721" /\ BridgeOrigin_ensure_origin(call'.origin)) =>
            \A owner \in Users, id \in TokenIds, metadata \in Metadatas :
                (~Live(id) /\ MintErc721Step(call'.origin, owner, id, metadata))
                    => MintCreates(owner, id, metadata) ]_vars

C3_Witness ==
    /\ IsMintToken(call) /\ result = "Ok"
    /\ Len(events) = 1 /\ events[1].event = "Minted"
    /\ Live(events[1].id)
    /\ TokenOwner[events[1].id] = events[1].owner
    /\ TokenCount >= 1

(***************************************************************************)
(* C4: a mint of an id that is live fails with TokenAlreadyExists and      *)
(* leaves the Token Store, the Ownership Map and the Supply Counter as     *)
(* they were, whatever owner and metadata the call supplies.               *)
(***************************************************************************)
MintRejected ==
    /\ result' = "TokenAlreadyExists"
    /\ RegistryUnchanged
    /\ events' = <<>>

C4_SecondMintRejected ==
    [][ /\ (call'.op = "mint" /\ ensure_root(call'.origin)) =>
            \A owner \in Users, id \in TokenIds, metadata \in Metadatas :
                (Live(id) /\ MintStep(call'.origin, owner, id, metadata))
                    => MintRejected
        /\ (call'.op = "mint_erc721" /\ BridgeOrigin_ensure_origin(call'.origin)) =>
            \A owner \in Users, id \in TokenIds, metadata \in Metadatas :
                (Live(id) /\ MintErc721Step(call'.origin, owner, id, metadata))
                    => MintRejected ]_vars

C4_Witness ==
    /\ IsMintToken(call) /\ result = "TokenAlreadyExists"
    /\ \E id \in TokenIds : Live(id)
    /\ events = <<>>

(***************************************************************************)
(* C5: a transfer of a live token by a sender who is not its recorded      *)
(* owner fails with NotOwner, a transfer of an absent id fails with        *)
(* TokenIdDoesNotExist; either way the Ownership Map, the Token Store and  *)
(* the Supply Counter are unchanged and no Transferred event is emitted.   *)
(***************************************************************************)
C5_TransferRejected ==
    [][ (call'.op = "transfer" /\ ensure_signed(call'.origin)) =>
          \A to \in Users, id \in TokenIds :
            TransferStep(call'.origin, to, id)
              => /\ (Live(id) /\ TokenOwner[id] # call'.origin.who) =>
                       /\ result' = "NotOwner"
                       /\ RegistryUnchanged
                       /\ ~Emitted(events', "Transferred")
                 /\ ~Live(id) =>
                       /\ result' = "TokenIdDoesNotExist"
                       /\ RegistryUnchanged
                       /\ ~Emitted(events', "Transferred") ]_vars

\* A user who owns no live token was refused with NotOwner.
C5_Witness ==
    /\ call.op = "transfer" /\ ensure_signed(call.origin)
    /\ result = "NotOwner"
    /\ \E id \in TokenIds : Live(id)
    /\ \A id \in TokenIds : Live(id) => TokenOwner[id] # call.origin.who

(***************************************************************************)
(* C6: after an id has been burned, a mint of the same id with any owner   *)
(* and metadata succeeds and the owner and the record are exactly the new  *)
(* ones; the owner at the burn, unless the token is theirs again, is then  *)
(* refused with NotOwner when they transfer the id or reach burn_token for *)
(* it through transfer_erc721.  (A burned id is one with no owner entry.)   *)
(***************************************************************************)
RemintReplaces(owner, id, metadata) ==
    /\ result' = "Ok"
    /\ contains_key(Tokens', id) /\ Tokens'[id] = Erc721Token(id, metadata)
    /\ contains_key(TokenOwner', id) /\ TokenOwner'[id] = owner

Refused == result' = "NotOwner" /\ RegistryUnchanged

\* The ids that were burned and are live again, with the caller of the next
\* call being the owner at that burn; strict leaves out the ids the caller
\* owns again.
FormerlyOwned(origin, strict) ==
    {id \in TokenIds : /\ Live(id)
                       /\ burnedFrom[id] = origin.who
                       /\ strict => TokenOwner[id] # origin.who}

RemintAfterBurn(strict) ==
    /\ (call'.op = "mint" /\ ensure_root(call'.origin)) =>
          \A owner \in Users, id \in TokenIds, metadata \in Metadatas :
              (/\ burnedFrom[id] # NoAccount /\ ~contains_key(TokenOwner, id)
               /\ MintStep(call'.origin, owner, id, metadata))
                  => RemintReplaces(owner, id, metadata)
    /\ (call'.op = "mint_erc721" /\ BridgeOrigin_ensure_origin(call'.origin)) =>
          \A owner \in Users, id \in TokenIds, metadata \in Metadatas :
              (/\ burnedFrom[id] # NoAccount /\ ~contains_key(TokenOwner, id)
               /\ MintErc721Step(call'.origin, owner, id, metadata))
                  => RemintReplaces(owner, id, metadata)
    /\ (call'.op = "transfer" /\ ensure_signed(call'.origin)) =>
          \A to \in Users, id \in FormerlyOwned(call'.origin, strict) :
              TransferStep(call'.origin, to, id) => Refused
    /\ (call'.op = "transfer_erc721" /\ ensure_signed(call'.origin)) =>
          \A recipient \in Recipients, id \in FormerlyOwned(call'.origin, strict),
             dest_id \in ChainWhitelist, bridgeOk \in BOOLEAN :
              TransferErc721Step(call'.origin, recipient, id, dest_id, bridgeOk)
                  => Refused

C6_RemintFreesId == [][RemintAfterBurn(TRUE)]_vars

\* C6 as stated: the owner at the burn is refused whoever the new owner is.
C6_FormerOwnerAlwaysRefused == [][RemintAfterBurn(FALSE)]_vars

\* The only live token was burned from the caller and minted again to
\* another account; the caller's transfer was refused.
C6_Witness ==
    /\ call.op = "transfer" /\ ensure_signed(call.origin)
    /\ result = "NotOwner"
    /\ \E id \in TokenIds :
          /\ DOMAIN Tokens = {id}
          /\ burnedFrom[id] = call.origin.who
          /\ TokenOwner[id] # call.origin.who

(***************************************************************************)
(* C7: transfer_erc721 of a signed caller to a destination that is not     *)
(* whitelisted fails with InvalidTransfer; the Token Store, the Ownership  *)
(* Map and the Supply Counter are unchanged and nothing is handed to the   *)
(* bridge.                                                                 *)
(***************************************************************************)
C7_SendTokenNotWhitelisted ==
    [][ (call'.op = "transfer_erc721" /\ ensure_signed(call'.origin)) =>
          \A recipient \in Recipients, token_id \in TokenIds,
             dest_id \in ChainIds \ ChainWhitelist, bridgeOk \in BOOLEAN :
              TransferErc721Step(call'.origin, recipient, token_id, dest_id, bridgeOk)
                  => /\ result' = "InvalidTransfer"
                     /\ RegistryUnchanged
                     /\ events' = <<>>
                     /\ bridgeCalls' = <<>> ]_vars

\* Every id is live and the caller owns one, so the refusal is the
\* whitelist's.
C7_Witness ==
    /\ call.op = "transfer_erc721" /\ ensure_signed(call.origin)
    /\ result = "InvalidTransfer"
    /\ ChainWhitelist # ChainIds
    /\ DOMAIN Tokens = TokenIds
    /\ \E id \in TokenIds : TokenOwner[id] = call.origin.who

(***************************************************************************)
(* C8: transfer_native whose balance move from the caller to the bridge    *)
(* account fails, fails as a whole with no call of the bridge and no       *)
(* balance changed; to a destination that is not whitelisted it fails with *)
(* InvalidTransfer before any balance move.                                *)
(***************************************************************************)
C8_SendCurrencyRejected ==
    [][ (call'.op = "transfer_native" /\ ensure_signed(call'.origin)) =>
          \A amount \in Amounts, recipient \in Recipients, dest_id \in ChainIds,
             bridgeOk \in BOOLEAN :
              TransferNativeStep(call'.origin, amount, recipient, dest_id, bridgeOk)
                  => /\ dest_id \notin ChainWhitelist =>
                           /\ result' = "InvalidTransfer"
                           /\ UNCHANGED Balances
                           /\ bridgeCalls' = <<>>
                     /\ (/\ dest_id \in ChainWhitelist
                         /\ Balances[call'.origin.who] < amount) =>
                           /\ result' = "InsufficientBalance"
                           /\ UNCHANGED Balances
                           /\ bridgeCalls' = <<>> ]_vars

\* A caller without funds was refused after the whitelist check passed.
C8_Witness ==
    /\ call.op = "transfer_native" /\ ensure_signed(call.origin)
    /\ result = "InsufficientBalance"
    /\ ChainWhitelist # {}
    /\ Balances[call.origin.who] = 0
    /\ bridgeCalls = <<>>

\* bytes is the 32-byte big-endian form of n, for n below 2^24: the low
\* three bytes carry n and every byte above them is zero.
IsBigEndian32(bytes, n) ==
    /\ Len(bytes) = 32
    /\ \A i \in 1..32 : bytes[i] \in 0..255
    /\ \A i \in 1..29 : bytes[i] = 0
    /\ bytes[30] * 65536 + bytes[31] * 256 + bytes[32] = n

(***************************************************************************)
(* C9: when the owner of a live token calls transfer_erc721 to a           *)
(* whitelisted destination, the token leaves the Token Store and the       *)
(* Ownership Map and exactly one message is handed to the bridge: for that *)
(* destination, tagged Erc721Id, with the token id as 32 big-endian bytes, *)
(* the recipient bytes as given and the metadata the token had before the  *)
(* burn.                                                                   *)
(***************************************************************************)
C9_SendTokenMessage ==
    [][ (call'.op = "transfer_erc721" /\ ensure_signed(call'.origin)) =>
          \A recipient \in Recipients, token_id \in TokenIds,
             dest_id \in ChainWhitelist, bridgeOk \in BOOLEAN :
              (/\ Live(token_id) /\ TokenOwner[token_id] = call'.origin.who
               /\ TransferErc721Step(call'.origin, recipient, token_id, dest_id, bridgeOk))
                  => /\ ~contains_key(Tokens', token_id)
                     /\ ~contains_key(TokenOwner', token_id)
                     /\ Len(bridgeCalls') = 1
                     /\ bridgeCalls'[1].fn = "transfer_nonfungible"
                     /\ bridgeCalls'[1].dest_id = dest_id
                     /\ bridgeCalls'[1].resource_id = Erc721Id
                     /\ IsBigEndian32(bridgeCalls'[1].token_id, token_id)
                     /\ bridgeCalls'[1].to = recipient
                     /\ bridgeCalls'[1].metadata = Tokens[token_id].metadata ]_vars

\* Token 258 with metadata 1,2,3 was burned and sent.
C9_Witness ==
    /\ call.op = "transfer_erc721" /\ result = "Ok"
    /\ events = <<Burned(258)>>
    /\ ~Live(258)
    /\ Len(bridgeCalls) = 1
    /\ bridgeCalls[1].metadata = <<1, 2, 3>>
    /\ bridgeCalls[1].token_id[31] = 1 /\ bridgeCalls[1].token_id[32] = 2

(***************************************************************************)
(* C10: transfer_erc721 to a whitelisted destination, for a live token and *)
(* by a signed caller who is not its recorded owner, fails with NotOwner,  *)
(* leaves the token, its owner and its metadata as they were and hands     *)
(* nothing to the bridge; for an id that is not live it fails with         *)
(* InvalidTransfer and hands nothing to the bridge.                        *)
(***************************************************************************)
SendTokenRefusals(dests) ==
    (call'.op = "transfer_erc721" /\ ensure_signed(call'.origin)) =>
        \A recipient \in Recipients, token_id \in TokenIds, dest_id \in ChainIds,
           bridgeOk \in BOOLEAN :
            TransferErc721Step(call'.origin, recipient, token_id, dest_id, bridgeOk)
                => /\ (/\ dest_id \in dests /\ Live(token_id)
                       /\ TokenOwner[token_id] # call'.origin.who) =>
                         /\ result' = "NotOwner"
                         /\ RegistryUnchanged
                         /\ bridgeCalls' = <<>>
                   /\ (dest_id \in ChainWhitelist /\ ~Live(token_id)) =>
                         /\ result' = "InvalidTransfer"
                         /\ RegistryUnchanged
                         /\ bridgeCalls' = <<>>

C10_SendTokenNotOwner == [][SendTokenRefusals(ChainWhitelist)]_vars

\* C10 as stated: NotOwner whatever the destination.
C10_NotOwnerAnyDestination == [][SendTokenRefusals(ChainIds)]_vars

C10_Witness ==
    /\ call.op = "transfer_erc721" /\ ensure_signed(call.origin)
    /\ result = "NotOwner"
    /\ \E id \in TokenIds : Live(id) /\ TokenOwner[id] # call.origin.who
    /\ bridgeCalls = <<>>

(***************************************************************************)
(* C11: an outbound entry point (transfer_hash, transfer_native,           *)
(* transfer_erc721) that fails leaves no state change behind, also when    *)
(* the failure is the bridge's refusal of the message after validation:    *)
(* the token is still live with its owner and no balance has moved.        *)
(***************************************************************************)
IsOutbound(c) == c.op \in {"transfer_hash", "transfer_native", "transfer_erc721"}

C11_FailedSendChangesNothing ==
    [][ (IsOutbound(call') /\ result' # "Ok") =>
            UNCHANGED <<Tokens, TokenOwner, TokenCount, Balances>> ]_vars

(***************************************************************************)
(* C12: remark called by the bridge origin succeeds, deposits an event     *)
(* carrying the received hash, and changes no persisted state.             *)
(***************************************************************************)
C12_RemarkEmitsHash ==
    [][ (call'.op = "remark" /\ BridgeOrigin_ensure_origin(call'.origin)) =>
          \A hash \in Hashes :
              RemarkStep(call'.origin, hash)
                  => /\ result' = "Ok"
                     /\ events' = <<RemarkEvent(hash)>>
                     /\ UNCHANGED <<Tokens, TokenOwner, TokenCount, Balances>> ]_vars

(***************************************************************************)
(* C13: example_transfer, remark and mint_erc721 called with an origin the *)
(* bridge's origin check does not recognise fail with BadOrigin and change *)
(* nothing: no token is minted, no balance moves, no event is deposited.   *)
(***************************************************************************)
IsInbound(c) == c.op \in {"example_transfer", "remark", "mint_erc721"}

C13_InboundNeedsBridgeOrigin ==
    [][ (IsInbound(call') /\ ~BridgeOrigin_ensure_origin(call'.origin)) =>
            /\ result' = "BadOrigin"
            /\ UNCHANGED <<Tokens, TokenOwner, TokenCount, Balances>>
            /\ events' = <<>>
            /\ bridgeCalls' = <<>> ]_vars

\* A user with no live token of id 7 called mint_erc721 and was refused.
C13_Witness ==
    /\ call.op = "mint_erc721" /\ ensure_signed(call.origin)
    /\ call.origin.who \in Users
    /\ result = "BadOrigin"
    /\ ~Live(7)

(***************************************************************************)
(* C14: mint_erc721(recipient, id, metadata) from the bridge origin, for   *)
(* an id that is not live, creates the token owned by recipient and the    *)
(* Supply Counter grows by one; for a live id it fails with                *)
(* TokenAlreadyExists and the token's owner and metadata are kept.         *)
(***************************************************************************)
C14_ApplyToken ==
    [][ (call'.op = "mint_erc721" /\ BridgeOrigin_ensure_origin(call'.origin)) =>
          \A recipient \in Users, id \in TokenIds, metadata \in Metadatas :
              MintErc721Step(call'.origin, recipient, id, metadata)
                  => /\ ~Live(id) =>
                           /\ result' = "Ok"
                           /\ Tokens' = Insert(Tokens, id, Erc721Token(id, metadata))
                           /\ TokenOwner' = Insert(TokenOwner, id, recipient)
                           /\ TokenCount' = TokenCount + 1
                     /\ Live(id) =>
                           /\ result' = "TokenAlreadyExists"
                           /\ UNCHANGED <<Tokens, TokenOwner, TokenCount>> ]_vars

\* The bridge created a token for a user.
C14_Witness ==
    /\ call.op = "mint_erc721" /\ BridgeOrigin_ensure_origin(call.origin)
    /\ result = "Ok"
    /\ Len(events) = 1 /\ events[1].event = "Minted"
    /\ events[1].owner \in Users
    /\ TokenOwner[events[1].id] = events[1].owner

(***************************************************************************)
(* C15: mint and burn called by a signed account fail and change nothing;  *)
(* the root's burn of a live id removes it whoever owns it, and the root's *)
(* burn of an absent id fails with TokenIdDoesNotExist and changes         *)
(* nothing.                                                                *)
(***************************************************************************)
C15_RootOnly ==
    [][ /\ (call'.op \in {"mint", "burn"} /\ ensure_signed(call'.origin)) =>
              /\ result' = "BadOrigin"
              /\ RegistryUnchanged
              /\ events' = <<>>
        /\ (call'.op \in {"mint", "burn"} /\ result' = "Ok") => ensure_root(call'.origin)
        /\ (call'.op = "burn" /\ ensure_root(call'.origin)) =>
              \A id \in TokenIds :
                  BurnStep(call'.origin, id)
                      => /\ Live(id) =>
                               /\ result' = "Ok"
                               /\ Tokens' = Remove(Tokens, id)
                               /\ TokenOwner' = Remove(TokenOwner, id)
                         /\ ~Live(id) =>
                               /\ result' = "TokenIdDoesNotExist"
                               /\ RegistryUnchanged ]_vars

\* The root burned bob's token.
C15_Witness ==
    /\ call.op = "burn" /\ ensure_root(call.origin)
    /\ result = "Ok"
    /\ Len(events) = 1 /\ events[1].event = "Burned"
    /\ burnedFrom[events[1].id] = "bob"
    /\ ~Live(events[1].id)

(***************************************************************************)
(* C16: transfer_hash of a signed caller checks no whitelist itself: for   *)
(* every destination it hands the bridge one message, tagged HashId, whose *)
(* payload is the hash bytes; it returns what the bridge returns and       *)
(* changes neither the registry nor a balance.                             *)
(***************************************************************************)
HashMessage(hash, dest_id) ==
    [fn |-> "transfer_generic", dest_id |-> dest_id, resource_id |-> HashId,
     metadata |-> hash]

C16_SendOpaqueForwards ==
    [][ (call'.op = "transfer_hash" /\ ensure_signed(call'.origin)) =>
          \A hash \in Hashes, dest_id \in ChainIds, bridgeOk \in BOOLEAN :
              TransferHashStep(call'.origin, hash, dest_id, bridgeOk)
                  => /\ bridgeCalls' = <<HashMessage(hash, dest_id)>>
                     /\ result' = submit_message(World, HashMessage(hash, dest_id),
                                                 bridgeOk).res
                     /\ result' # "InvalidTransfer"
                     /\ UNCHANGED <<Tokens, TokenOwner, TokenCount, Balances>> ]_vars

\* A hash was handed over for a destination that is not whitelisted, and the
\* refusal is the bridge's.
C16_Witness ==
    /\ call.op = "transfer_hash" /\ ensure_signed(call.origin)
    /\ Len(bridgeCalls) = 1
    /\ bridgeCalls[1].dest_id \notin ChainWhitelist
    /\ bridgeCalls[1].resource_id = HashId
    /\ bridgeCalls[1].metadata \in Hashes
    /\ result = "ChainNotWhitelisted"

(***************************************************************************)
(* C17: a successful transfer(from, to, id) changes only the Ownership Map *)
(* entry of id, to `to`, and emits Transferred(from, to, id); the Token    *)
(* Store, the Supply Counter and the owners of all other ids are           *)
(* unchanged.                                                              *)
(***************************************************************************)
C17_TransferFrame ==
    [][ (call'.op = "transfer" /\ ensure_signed(call'.origin)) =>
          \A to \in Users, id \in TokenIds :
              (/\ Live(id) /\ TokenOwner[id] = call'.origin.who
               /\ TransferStep(call'.origin, to, id))
                  => /\ result' = "Ok"
                     /\ TokenOwner' = [TokenOwner EXCEPT ![id] = to]
                     /\ events' = <<Transferred(call'.origin.who, to, id)>>
                     /\ UNCHANGED <<Tokens, TokenCount, Balances>> ]_vars

\* Both tokens live; one just passed from its owner to the other user.
C17_Witness ==
    /\ call.op = "transfer" /\ result = "Ok"
    /\ DOMAIN Tokens = TokenIds
    /\ Len(events) = 1 /\ events[1].event = "Transferred"
    /\ events[1].from = call.origin.who
    /\ events[1].to # events[1].from
    /\ TokenOwner[events[1].id] = events[1].to

(***************************************************************************)
(* C18: the record stored for a live token does not change while the token *)
(* stays live (no call leaves an id live with another id field or other    *)
(* metadata), and the id field of every stored record is the key it is     *)
(* stored under.                                                           *)
(***************************************************************************)
C18_PayloadImmutable ==
    /\ [](\A id \in DOMAIN Tokens : Tokens[id].id = id)
    /\ [][ \A id \in DOMAIN Tokens \cap DOMAIN Tokens' : Tokens'[id] = Tokens[id] ]_vars

\* A token minted with metadata, transferred since, still carries it.
C18_Witness ==
    /\ call.op = "transfer" /\ result = "Ok"
    /\ Len(events) = 1
    /\ Live(events[1].id)
    /\ Tokens[events[1].id] = Erc721Token(events[1].id, <<1, 2, 3>>)

(***************************************************************************)
(* C19: the owner entry of a live token changes or disappears only in a    *)
(* transfer or a transfer_erc721 called by its current owner, or in the    *)
(* root's burn; no call of another signed account does it.                 *)
(***************************************************************************)
C19_OnlyOwnerOrRoot ==
    [][ \A id \in DOMAIN TokenOwner :
          (~contains_key(TokenOwner', id) \/ TokenOwner'[id] # TokenOwner[id])
              => \/ /\ call'.op \in {"transfer", "transfer_erc721"}
                    /\ call'.origin = Signed(TokenOwner[id])
                 \/ /\ call'.op = "burn"
                    /\ ensure_root(call'.origin) ]_vars

\* The owner sent the token away; the other user could not.
C19_Witness ==
    /\ call.op = "transfer_erc721" /\ result = "Ok"
    /\ Len(events) = 1 /\ events[1].event = "Burned"
    /\ burnedFrom[events[1].id] = call.origin.who
    /\ ~Live(events[1].id)

====
